---- MODULE Spec2Model ----
(***************************************************************************)
(* GroupEventsEndpoint (sentry/issues/endpoints/group_events.py): the      *)
(* "list an issue's events" request, as a state machine.  One request is   *)
(* served at a time; the collaborators the endpoint calls (environment     *)
(* resolver, search-grammar parser, date-range parser, direct-hit helper,  *)
(* query builder / storage engine, node store, paginator, serializer) are  *)
(* modelled by operators, and every call made to them is appended to the   *)
(* call log `calls`.                                                       *)
(***************************************************************************)
EXTENDS Integers, Sequences, FiniteSets, TLC

\* ------------------------------------------------------------------ bounds
MaxEvents == 4
MaxLimit == 2
MaxPages == 3
MaxTicks == 1

\* -------------------------------------------------------- program constants
\* timedelta(days=90); time is counted in days
Days90 == 90
\* the time the first request is served
Now0 == 100

\* ------------------------------------------------------------------- state
VARIABLES
    now,           \* the clock (timezone.now())
    pc,            \* the step the request is at
    req,           \* the request parameters read so far
    environments,  \* get(): environments
    query,         \* get(): query, the resolved predicate
    start,         \* get(): start
    end,           \* get(): end
    defaultEnd,    \* _get_events_snuba: default_end
    params,        \* _get_events_snuba: params
    referrer,      \* _get_events_snuba: referrer
    full,          \* _get_events_snuba: full
    orderby,       \* _get_events_snuba: orderby
    serializer,    \* _get_events_snuba: serializer
    offset,        \* the paginator's next offset
    pages,         \* the pages data_fn returned to the paginator
    calls,         \* the calls made to the collaborators, in order
    response,      \* what the request answered
    prev           \* the pages of the previous request, when it is repeated

vars ==
    <<now, pc, req, environments, query, start, end, defaultEnd, params,
      referrer, full, orderby, serializer, offset, pages, calls, response, prev>>

\* ------------------------------------------------------- values and inputs
Unread == "(unread)"
Absent == "(absent)"
None == <<>>
Some(x) == <<x>>

\* a request parameter is read once: later reads see the same value
Read(current, value) == current = Unread \/ current = value

\* request.GET["query"]
RawQueries == {Absent, "", "tag:x abc", "e2", "(", "impossible", "dur:>1"}
\* request.GET.getlist("environment")
EnvParams == {<<>>, <<"prod", "dev">>, <<"ghost">>}
\* request.GET["start"], request.GET["end"]
DateValues == {5, 70}
RawDates == {[kind |-> "absent", t |-> 0], [kind |-> "bad", t |-> 0]}
              \cup {[kind |-> "date", t |-> d] : d \in DateValues}
UnreadDate == [kind |-> "unread", t |-> 0]
\* request.GET["full"], request.GET["sample"]
FlagValues == {Absent, "1", "true", "True"}
\* the same, with more of the values a caller may send
AllFlagValues == FlagValues \cup {"0", "yes"}
\* start and end of the requests served one at a time
FewRawDates == {[kind |-> "absent", t |-> 0], [kind |-> "bad", t |-> 0],
                [kind |-> "date", t |-> 70]}
\* group.issue_category
Categories == {"ERROR", "PERFORMANCE"}

\* the issue the routing layer resolved (GroupEndpoint)
GroupId == 7
ProjectId == 3
OrganizationId == 1

\* ---------------------------------------------------------- the event store
EventIds == 1..MaxEvents

Ts(e) ==
    CASE e = 1 -> 10
      [] e = 2 -> 50
      [] e = 3 -> 60
      [] e = 4 -> 100
      [] OTHER -> 50 + e

EnvOf(e) ==
    CASE e % 3 = 1 -> "dev"
      [] e % 3 = 2 -> "staging"
      [] OTHER -> "prod"

\* storage-engine sample key: a stable hash of the event identifier
SampleKey(e) == (e * 3) % 7

Payload(e) == 1000 + e

\* ------------------------------------------------------------ collaborators
KnownEnvironments == {"prod", "dev", "staging"}

\* get_environments(request, organization): the requested environments in
\* request order, or ResourceDoesNotExist when one of them is unknown
GetEnvironments(envParam) ==
    IF \E i \in 1..Len(envParam) : envParam[i] \notin KnownEnvironments
    THEN [tag |-> "ResourceDoesNotExist", envs |-> <<>>]
    ELSE [tag |-> "ok", envs |-> envParam]

\* parse_query(projects, raw_query, user, environments): the keyword
\* arguments of the search; "query" holds the free text left after the
\* structured tokens were taken out
ParseQuery(raw) ==
    CASE raw = "(" ->
           [tag |-> "InvalidQuery", msg |-> "parse error: unbalanced (", query |-> None]
      [] raw = "impossible" ->
           [tag |-> "NoResults", msg |-> "", query |-> None]
      [] raw = "tag:x abc" ->
           [tag |-> "ok", msg |-> "", query |-> Some("abc")]
      [] raw = "dur:>1" ->
           [tag |-> "ok", msg |-> "", query |-> Some("")]
      [] OTHER ->
           [tag |-> "ok", msg |-> "", query |-> Some(raw)]

\* get_date_range_from_params(request.GET, optional=True)
DateRangeOutcomes(rs, re) ==
    CASE rs.kind = "bad" \/ re.kind = "bad" ->
           {[tag |-> "InvalidParams", msg |-> "not a valid date", start |-> None, end |-> None]}
      [] rs.kind = "absent" /\ re.kind = "absent" ->
           {[tag |-> "ok", msg |-> "", start |-> None, end |-> None]}
      [] rs.kind = "date" /\ re.kind = "date" ->
           IF rs.t > re.t
           THEN {[tag |-> "InvalidParams", msg |-> "start must be before end",
                  start |-> None, end |-> None]}
           ELSE {[tag |-> "ok", msg |-> "", start |-> Some(rs.t), end |-> Some(re.t)]}
      [] OTHER ->
           \* only one of start and end given: the spec leaves the outcome open
           {[tag |-> "InvalidParams", msg |-> "start and end are both required",
             start |-> None, end |-> None],
            [tag |-> "ok", msg |-> "",
             start |-> IF rs.kind = "date" THEN Some(rs.t) ELSE None,
             end |-> IF re.kind = "date" THEN Some(re.t) ELSE None]}

\* ---------------------------------------------------------- storage engine
Min(a, b) == IF a < b THEN a ELSE b

\* the text condition the storage query derives from a query string
Matches(text, e) ==
    CASE text = "" -> TRUE
      [] text = "tag:x abc" -> e >= 2
      [] text = "e2" -> e = 2
      [] OTHER -> FALSE

\* get_query_builder_for_group raises InvalidSearchQuery for a query that
\* names a field the issue's dataset does not have
BuilderRejects(text) == text = "dur:>1"

InWindow(p, e) == p.start <= Ts(e) /\ Ts(e) < p.end

InEnvironment(p, e) ==
    \/ p.environment = None
    \/ \E i \in 1..Len(p.environment[1]) : p.environment[1][i] = EnvOf(e)

\* the storage engine's sort: the sample key for orderby = "sample",
\* otherwise most recent first
Before(ob, a, b) ==
    IF ob = "sample"
    THEN SampleKey(a) < SampleKey(b) \/ (SampleKey(a) = SampleKey(b) /\ a < b)
    ELSE Ts(a) > Ts(b) \/ (Ts(a) = Ts(b) /\ a > b)

RECURSIVE Ordered(_, _)
Ordered(S, ob) ==
    IF S = {} THEN <<>>
    ELSE LET first == CHOOSE x \in S : \A y \in S \ {x} : Before(ob, x, y)
         IN <<first>> \o Ordered(S \ {first}, ob)

Row(e) == [id |-> e, project_id |-> ProjectId, issue_id |-> GroupId, timestamp |-> Ts(e)]

\* snuba_query.run_query(referrer): the rows offset+1 .. offset+limit of the
\* ordered matches
RunQuery(q) ==
    LET hits == {e \in EventIds :
                    Matches(q.query, e) /\ InWindow(q.params, e) /\ InEnvironment(q.params, e)}
        all == Ordered(hits, q.orderby)
        rows == SubSeq(all, q.offset + 1, Min(q.offset + q.limit, Len(all)))
    IN [i \in 1..Len(rows) |-> Row(rows[i])]

\* eventstore.backend.bind_nodes(events): one batched node fetch that
\* attaches every event's payload
BindNodes(events) ==
    [i \in 1..Len(events) |-> [events[i] EXCEPT !.node = Some(Payload(events[i].event_id))]]

\* the event identifier a resolved query names, 0 when it names none
\* (normalize_event_id in get_direct_hit_response)
DirectHitId(q) ==
    IF q = Some("e2") THEN 2 ELSE 0

\* the single targeted lookup of get_direct_hit_response
DirectLookup(id, p) == {e \in EventIds : e = id /\ InWindow(p, e)}

\* --------------------------------------------------- records of the model
NoParams ==
    [project_id |-> <<>>, organization_id |-> 0, start |-> 0, end |-> 0,
     environment |-> None]

\* one entry of the call log
NoCall ==
    [op |-> "", page |-> 0, text |-> "", query |-> None, params |-> NoParams,
     referrer |-> <<>>, offset |-> 0, limit |-> 0, orderby |-> "", n |-> 0,
     result |-> "", msg |-> ""]

NoResponse == [status |-> 0, kind |-> "", detail |-> "", items |-> <<>>, via |-> ""]

\* the request parameters, each unread until the code reads it
FreshRequest ==
    [environment |-> <<Unread>>, query |-> Unread, start |-> UnreadDate,
     end |-> UnreadDate, full |-> Unread, sample |-> Unread, category |-> Unread,
     per_page |-> 0]

NoPrev ==
    [repeated |-> FALSE, defaultEnd |-> 0, start |-> None, end |-> None, orderby |-> "",
     referrer |-> <<>>, pages |-> <<>>]

NoOrder == "(none)"

\* storage-engine failures of run_query
StorageErrors == {"QueryOutsideRetentionError", "SnubaError"}

\* ------------------------------------------------- the endpoint's own code
\* mutant: InvalidQuery answered like NoResults, with an empty list
QueryFailureResponseAllEmpty(tag, msg) ==
    [status |-> 200, kind |-> "list", detail |-> "", items |-> <<>>, via |-> "Response"]

\* Response({"detail": str(exc)}, status=400) / Response([])
QueryFailureResponse(tag, msg) ==
    IF tag = "InvalidQuery"
    THEN [status |-> 400, kind |-> "detail", detail |-> msg, items |-> <<>>, via |-> "Response"]
    ELSE [status |-> 200, kind |-> "list", detail |-> "", items |-> <<>>, via |-> "Response"]

\* mutant: the outcome of query resolution is kept until the window is parsed
AfterQueryDefersReturn(tag) == "ResolvingWindow"

\* mutant: the request goes on without parsing its date range
AfterQuerySkipsWindow(tag) == IF tag = "ok" THEN "DetectingDirectHit" ELSE "Done"

\* mutant: NoResults and ResourceDoesNotExist swallowed without returning
AfterQueryFallsThrough(tag) == IF tag = "InvalidQuery" THEN "Done" ELSE "ResolvingWindow"

\* the step after the first try block: on with the request, or return
AfterQuery(tag) == IF tag = "ok" THEN "ResolvingWindow" ELSE "Done"

\* raise ParseError(detail=str(e)): the framework answers 400 {"detail": ...}
ParseErrorResponse(msg) ==
    [status |-> 400, kind |-> "detail", detail |-> msg, items |-> <<>>, via |-> "ParseError"]

\* an exception get() does not catch leaves it; the framework reports a
\* server fault
ServerFault(exc) ==
    [status |-> 500, kind |-> "fault", detail |-> exc, items |-> <<>>, via |-> "unhandled"]

\* get(), third try block, and the framework around it: GroupEventsError is
\* caught and raised again as ParseError; a ParseError raised further down
\* passes through and is answered by the framework; anything else is a
\* server fault
SnubaOutcome(tag, detail) ==
    CASE tag = "GroupEventsError" ->
           [status |-> 400, kind |-> "detail", detail |-> detail, items |-> <<>>,
            via |-> "GroupEventsError"]
      [] tag = "ParseError" -> ParseErrorResponse(detail)
      [] OTHER -> ServerFault(detail)

\* mutant: InvalidParams swallowed, the defaults used instead
AfterWindowIgnoresError(tag) == "DetectingDirectHit"

\* the step after the second try block
AfterWindow(tag) == IF tag = "ok" THEN "DetectingDirectHit" ELSE "Done"

\* mutant: only a missing parameter is left unparsed
GetSearchQueryParsesEmpty(raw) ==
    IF raw # Absent
    THEN ParseQuery(raw)
    ELSE [tag |-> "ok", msg |-> "", query |-> None]

\* _get_search_query: parse only a non-empty query string
GetSearchQuery(raw) ==
    IF raw # Absent /\ raw # ""
    THEN ParseQuery(raw)
    ELSE [tag |-> "ok", msg |-> "", query |-> None]

\* the calls _get_search_query makes
SearchQueryCalls(raw) ==
    IF raw # Absent /\ raw # ""
    THEN <<[NoCall EXCEPT !.op = "parse_query", !.text = raw,
                          !.result = ParseQuery(raw).tag, !.msg = ParseQuery(raw).msg]>>
    ELSE <<>>

\* mutant: the environment restriction is part of the parameters from the start
MakeParamsWithEnvironment(s, e, default_end) ==
    [project_id |-> <<ProjectId>>,
     organization_id |-> OrganizationId,
     start |-> IF s # None THEN s[1] ELSE default_end - Days90,
     end |-> IF e # None THEN e[1] ELSE default_end,
     environment |-> IF Len(environments) > 0 THEN Some(environments) ELSE None]

\* mutant: the caller's end is dropped for the current time
MakeParamsEndNow(s, e, default_end) ==
    [project_id |-> <<ProjectId>>,
     organization_id |-> OrganizationId,
     start |-> IF s # None THEN s[1] ELSE default_end - Days90,
     end |-> default_end,
     environment |-> None]

\* params = {...}: the caller's start and end, else the 90-day default
MakeParams(s, e, default_end) ==
    [project_id |-> <<ProjectId>>,
     organization_id |-> OrganizationId,
     start |-> IF s # None THEN s[1] ELSE default_end - Days90,
     end |-> IF e # None THEN e[1] ELSE default_end,
     environment |-> None]

\* issue_category.name.lower()
Lower(name) ==
    CASE name = "ERROR" -> "error"
      [] name = "PERFORMANCE" -> "performance"
      [] OTHER -> name

\* mutant: the category name is used as it is spelled
ReferrerAsSpelled(category) == <<"api", "group-events", category>>

\* f"api.group-events.{...}", kept as its dot-separated parts
Referrer(category) == <<"api", "group-events", Lower(category)>>

\* f"{referrer}.direct-hit"
DirectHitReferrer(ref) == Append(ref, "direct-hit")

\* mutant: the key is set whether or not an environment was resolved
WithEnvironmentsAlways(p, envs) == [p EXCEPT !.environment = Some(envs)]

\* if environments: params["environment"] = [env.name for env in environments]
WithEnvironments(p, envs) ==
    IF Len(envs) > 0 THEN [p EXCEPT !.environment = Some(envs)] ELSE p

\* mutant: any value sent counts as set
FlagTruthy(raw) == raw # Absent

\* request.GET.get(name) in ("1", "true")
Flag(raw) == raw \in {"1", "true"}

OrderBy(sample) == IF sample THEN "sample" ELSE NoOrder

\* EventSerializer() if full else SimpleEventSerializer()
ChooseSerializer(fl) == IF fl THEN "EventSerializer" ELSE "SimpleEventSerializer"

\* mutant: the page query is built from the free text the parser left
QueryTextResolved(raw) ==
    IF raw = Absent \/ raw = "" \/ ParseQuery(raw).query = None
    THEN ""
    ELSE ParseQuery(raw).query[1]

\* request.GET.get("query", "")
QueryText(raw) == IF raw = Absent THEN "" ELSE raw

\* mutant: the direct-hit response is built and then not returned
AfterDirectHitIgnored(hit) == "Preparing"

\* if direct_hit_resp: return direct_hit_resp
AfterDirectHit(hit) == IF hit THEN "Done" ELSE "Preparing"

\* mutant: the environment restriction reaches the first page only
BuilderCallFirstPageEnvironment(text, p, off, limit, ob) ==
    [query |-> text,
     params |-> IF off = 0 THEN p ELSE [p EXCEPT !.environment = None],
     group |-> GroupId, limit |-> limit, offset |-> off, orderby |-> ob]

\* mutant: offset and limit change places
BuilderCallLimitAsOffset(text, p, off, limit, ob) ==
    [query |-> text, params |-> p, group |-> GroupId, limit |-> off,
     offset |-> limit, orderby |-> ob]

\* mutant: every page is asked for from the top
BuilderCallNoOffset(text, p, off, limit, ob) ==
    [query |-> text, params |-> p, group |-> GroupId, limit |-> limit,
     offset |-> 0, orderby |-> ob]

\* mutant: the default window is computed again, from the clock, for every page
BuilderCallFreshWindow(text, p, off, limit, ob) ==
    [query |-> text,
     params |-> [p EXCEPT !.start = IF start # None THEN start[1] ELSE now - Days90,
                          !.end = IF end # None THEN end[1] ELSE now],
     group |-> GroupId, limit |-> limit, offset |-> off, orderby |-> ob]

\* the arguments data_fn hands to get_query_builder_for_group
BuilderCall(text, p, off, limit, ob) ==
    [query |-> text, params |-> p, group |-> GroupId, limit |-> limit,
     offset |-> off, orderby |-> ob]

\* mutant: the group id is read from the row's project column
MakeEventsGroupFromProject(rows) ==
    [i \in 1..Len(rows) |->
        [event_id |-> rows[i].id,
         project_id |-> rows[i].project_id,
         group_id |-> rows[i].project_id,
         timestamp |-> rows[i].timestamp,
         node |-> None]]

\* Event(event_id=..., project_id=..., snuba_data={...}) for each row, in row order
MakeEvents(rows) ==
    [i \in 1..Len(rows) |->
        [event_id |-> rows[i].id,
         project_id |-> rows[i].project_id,
         group_id |-> rows[i].issue_id,
         timestamp |-> rows[i].timestamp,
         node |-> None]]

\* mutant: the handles are returned as they were built
HydrateNever(fl, events) == events

\* if full: eventstore.backend.bind_nodes(results)
Hydrate(fl, events) == IF fl THEN BindNodes(events) ELSE events

\* mutant: the nodes are fetched event by event
HydrateCallsPerRow(fl, events, page) ==
    IF fl
    THEN [i \in 1..Len(events) |->
             [NoCall EXCEPT !.op = "bind_nodes", !.page = page, !.n = 1]]
    ELSE <<>>

\* the node-store calls of one page
HydrateCalls(fl, events, page) ==
    IF fl
    THEN <<[NoCall EXCEPT !.op = "bind_nodes", !.page = page, !.n = Len(events)]>>
    ELSE <<>>

\* mutant: InvalidSearchQuery is not caught in data_fn
DataFnLeaksInvalidSearchQuery(text, p, ref, ob, fl, off, limit, page, err) ==
    LET bq == BuilderCall(text, p, off, limit, ob)
        build == [NoCall EXCEPT !.op = "get_query_builder_for_group", !.page = page,
                                !.text = bq.query, !.params = bq.params,
                                !.offset = bq.offset, !.limit = bq.limit,
                                !.orderby = bq.orderby]
        run == [build EXCEPT !.op = "run_query", !.referrer = ref]
    IN IF BuilderRejects(bq.query)
       THEN [tag |-> "InvalidSearchQuery", detail |-> "invalid search query",
             events |-> <<>>,
             calls |-> <<[build EXCEPT !.result = "InvalidSearchQuery",
                                       !.msg = "invalid search query"]>>]
       ELSE IF err # "none"
       THEN [tag |-> "unhandled", detail |-> err, events |-> <<>>,
             calls |-> <<build, [run EXCEPT !.result = err]>>]
       ELSE LET events == MakeEvents(RunQuery(bq))
            IN [tag |-> "ok", detail |-> "", events |-> Hydrate(fl, events),
                calls |-> <<build, [run EXCEPT !.n = Len(events), !.result = "ok"]>>
                            \o HydrateCalls(fl, events, page)]

\* data_fn(offset, limit); err is what the storage engine does with the query
DataFn(text, p, ref, ob, fl, off, limit, page, err) ==
    LET bq == BuilderCall(text, p, off, limit, ob)
        build == [NoCall EXCEPT !.op = "get_query_builder_for_group", !.page = page,
                                !.text = bq.query, !.params = bq.params,
                                !.offset = bq.offset, !.limit = bq.limit,
                                !.orderby = bq.orderby]
        run == [build EXCEPT !.op = "run_query", !.referrer = ref]
    IN IF BuilderRejects(bq.query)
       THEN [tag |-> "ParseError", detail |-> "invalid search query", events |-> <<>>,
             calls |-> <<[build EXCEPT !.result = "InvalidSearchQuery",
                                       !.msg = "invalid search query"]>>]
       ELSE IF err # "none"
       THEN [tag |-> "unhandled", detail |-> err, events |-> <<>>,
             calls |-> <<build, [run EXCEPT !.result = err]>>]
       ELSE LET events == MakeEvents(RunQuery(bq))
            IN [tag |-> "ok", detail |-> "", events |-> Hydrate(fl, events),
                calls |-> <<build, [run EXCEPT !.n = Len(events), !.result = "ok"]>>
                            \o HydrateCalls(fl, events, page)]

\* the paginator: another page unless the last one was short or the page
\* cap is reached
MorePages(page_len, limit, fetched, cap) == page_len >= limit /\ fetched < cap

\* serialize(results, request.user, serializer)
Serialize(events, ser) ==
    [i \in 1..Len(events) |->
        [id |-> events[i].event_id,
         timestamp |-> events[i].timestamp,
         group |-> events[i].group_id,
         project |-> events[i].project_id,
         payload |-> IF ser = "EventSerializer"
                     THEN Some(Payload(events[i].event_id)) ELSE None,
         fetched |-> ser = "EventSerializer" /\ events[i].node = None]]

\* the node fetches the serializer has to make itself
SerializeCalls(events, ser) ==
    LET unbound == {i \in 1..Len(events) : events[i].node = None}
    IN <<[NoCall EXCEPT !.op = "serialize", !.n = Len(events)]>>
       \o (IF ser = "EventSerializer" /\ unbound # {}
           THEN <<[NoCall EXCEPT !.op = "node_fetch", !.n = Cardinality(unbound)]>>
           ELSE <<>>)

\* the response get_direct_hit_response builds around the event it found
DirectHitResponse(id) ==
    [status |-> 200, kind |-> "list", detail |-> "",
     items |-> Serialize(BindNodes(MakeEvents(<<Row(id)>>)), "EventSerializer"),
     via |-> "direct-hit"]

RECURSIVE Concat(_)
Concat(ps) == IF ps = <<>> THEN <<>> ELSE ps[1].events \o Concat(Tail(ps))

Init ==
    /\ now = Now0
    /\ pc = "ResolvingQuery"
    /\ req = FreshRequest
    /\ environments = <<>>
    /\ query = None
    /\ start = None
    /\ end = None
    /\ defaultEnd = 0
    /\ params = NoParams
    /\ referrer = <<>>
    /\ full = FALSE
    /\ orderby = ""
    /\ serializer = ""
    /\ offset = 0
    /\ pages = <<>>
    /\ calls = <<>>
    /\ response = NoResponse
    /\ prev = NoPrev

\* ----------------------------------------------------------------- actions
\* get(), first try block: get_environments, then _get_search_query, for a
\* request whose environment, query, start and end parameters are among the
\* given ones; a request that returns here leaves its start and end unparsed,
\* and req keeps them as they were sent
ResolveQueryFrom(envParams, rawQueries, rawDates) ==
    /\ pc = "ResolvingQuery"
    /\ \E ep \in envParams, raw \in rawQueries \cup {Unread},
          rs \in rawDates \cup {UnreadDate}, re \in rawDates \cup {UnreadDate} :
         LET envs == GetEnvironments(ep)
             parsed == IF envs.tag = "ok"
                       THEN GetSearchQuery(raw)
                       ELSE [tag |-> envs.tag, msg |-> "", query |-> None]
         IN /\ req.environment = <<Unread>> \/ req.environment = ep
            /\ IF envs.tag = "ok"
               THEN raw # Unread /\ Read(req.query, raw)
               ELSE raw = req.query
            /\ IF parsed.tag = "ok"
               THEN rs = req.start /\ re = req.end
               ELSE /\ rs # UnreadDate /\ (req.start = UnreadDate \/ req.start = rs)
                    /\ re # UnreadDate /\ (req.end = UnreadDate \/ req.end = re)
            /\ req' = [req EXCEPT !.environment = ep, !.query = raw,
                                  !.start = rs, !.end = re]
            /\ calls' = Append(calls, [NoCall EXCEPT !.op = "get_environments",
                                                     !.result = envs.tag])
                          \o (IF envs.tag = "ok" THEN SearchQueryCalls(raw) ELSE <<>>)
            /\ environments' = envs.envs
            /\ query' = parsed.query
            /\ response' = IF parsed.tag = "ok"
                           THEN response
                           ELSE QueryFailureResponse(parsed.tag, parsed.msg)
            /\ pc' = AfterQuery(parsed.tag)
    /\ UNCHANGED <<now, start, end, defaultEnd, params, referrer, full,
                   orderby, serializer, offset, pages, prev>>

ResolveQuery == ResolveQueryFrom(EnvParams, RawQueries, RawDates)

\* get(), second try block: get_date_range_from_params, for a request whose
\* start and end parameters are among the given ones
ResolveWindowFrom(rawDates) ==
    /\ pc = "ResolvingWindow"
    /\ \E rs \in rawDates, re \in rawDates :
         /\ req.start = UnreadDate \/ req.start = rs
         /\ req.end = UnreadDate \/ req.end = re
         /\ \E out \in DateRangeOutcomes(rs, re) :
              /\ req' = [req EXCEPT !.start = rs, !.end = re]
              /\ calls' = Append(calls, [NoCall EXCEPT !.op = "get_date_range_from_params",
                                                       !.result = out.tag, !.msg = out.msg])
              /\ start' = out.start
              /\ end' = out.end
              /\ response' = IF out.tag = "ok" THEN response ELSE ParseErrorResponse(out.msg)
              /\ pc' = AfterWindow(out.tag)
    /\ UNCHANGED <<now, environments, query, defaultEnd, params, referrer,
                   full, orderby, serializer, offset, pages, prev>>

ResolveWindow == ResolveWindowFrom(RawDates)

\* _get_events_snuba up to the direct-hit return
DetectDirectHit ==
    /\ pc = "DetectingDirectHit"
    /\ \E cat \in Categories :
         LET p == MakeParams(start, end, now)
             ref == Referrer(cat)
             id == DirectHitId(query)
             found == DirectLookup(id, p)
             call == [NoCall EXCEPT !.op = "get_direct_hit_response", !.query = query,
                                    !.params = p, !.referrer = DirectHitReferrer(ref)]
             hit == id # 0 /\ Cardinality(found) = 1
         IN /\ Read(req.category, cat)
            /\ req' = [req EXCEPT !.category = cat]
            /\ defaultEnd' = now
            /\ params' = p
            /\ referrer' = ref
            /\ calls' = Append(calls, call)
                          \o (IF id # 0
                              THEN <<[call EXCEPT !.op = "direct_lookup", !.n = Cardinality(found)]>>
                              ELSE <<>>)
            /\ response' = IF hit THEN DirectHitResponse(id) ELSE response
            /\ pc' = AfterDirectHit(hit)
    /\ UNCHANGED <<now, environments, query, start, end, full, orderby,
                   serializer, offset, pages, prev>>

\* _get_events_snuba after the direct-hit check, up to self.paginate(...),
\* for a request whose full and sample parameters are among the given ones
PrepareFilterFrom(flagValues) ==
    /\ pc = "Preparing"
    /\ \E fr \in flagValues, sr \in flagValues, lim \in 1..MaxLimit :
         /\ Read(req.full, fr)
         /\ Read(req.sample, sr)
         /\ req.per_page = 0 \/ req.per_page = lim
         /\ req' = [req EXCEPT !.full = fr, !.sample = sr, !.per_page = lim]
         /\ params' = WithEnvironments(params, environments)
         /\ full' = Flag(fr)
         /\ orderby' = OrderBy(Flag(sr))
         /\ serializer' = ChooseSerializer(Flag(fr))
    /\ offset' = 0
    /\ pc' = "Paginating"
    /\ UNCHANGED <<now, environments, query, start, end, defaultEnd, referrer,
                   pages, calls, response, prev>>

PrepareFilter == PrepareFilterFrom(FlagValues)

\* one data_fn(offset, limit) call of the paginator
FetchPage ==
    /\ pc = "Paginating"
    /\ \E err \in {"none"} \cup StorageErrors :
         LET r == DataFn(QueryText(req.query), params, referrer, orderby, full,
                         offset, req.per_page, Len(pages) + 1, err)
         IN /\ calls' = calls \o r.calls
            /\ IF r.tag = "ok"
               THEN /\ pages' = Append(pages, [offset |-> offset, limit |-> req.per_page,
                                               events |-> r.events])
                    /\ response' = response
                    /\ IF MorePages(Len(r.events), req.per_page, Len(pages) + 1, MaxPages)
                       THEN pc' = "Paginating" /\ offset' = offset + req.per_page
                       ELSE pc' = "Materializing" /\ offset' = offset
               ELSE /\ pages' = pages
                    /\ offset' = offset
                    /\ pc' = "Done"
                    /\ response' = SnubaOutcome(r.tag, r.detail)
    /\ UNCHANGED <<now, req, environments, query, start, end, defaultEnd,
                   params, referrer, full, orderby, serializer, prev>>

\* on_results: serialize what the paginator collected, and respond
Materialize ==
    /\ pc = "Materializing"
    /\ calls' = calls \o SerializeCalls(Concat(pages), serializer)
    /\ response' = [status |-> 200, kind |-> "list", detail |-> "",
                    items |-> Serialize(Concat(pages), serializer), via |-> "paginate"]
    /\ pc' = "Done"
    /\ UNCHANGED <<now, req, environments, query, start, end, defaultEnd,
                   params, referrer, full, orderby, serializer, offset, pages, prev>>

\* what every request starts from
Reset ==
    /\ pc' = "ResolvingQuery"
    /\ environments' = <<>>
    /\ query' = None
    /\ start' = None
    /\ end' = None
    /\ defaultEnd' = 0
    /\ params' = NoParams
    /\ referrer' = <<>>
    /\ full' = FALSE
    /\ orderby' = ""
    /\ serializer' = ""
    /\ offset' = 0
    /\ pages' = <<>>
    /\ calls' = <<>>
    /\ response' = NoResponse
    /\ UNCHANGED now

\* the client sends the same sampled request again, once it was answered
\* with its pages
Repeat ==
    /\ pc = "Done"
    /\ orderby = "sample"
    /\ response.via = "paginate"
    /\ ~prev.repeated
    /\ Reset
    /\ req' = req
    /\ prev' = [repeated |-> TRUE, defaultEnd |-> defaultEnd, start |-> start, end |-> end,
                orderby |-> orderby, referrer |-> referrer, pages |-> pages]

\* time passes while the pages of a request are fetched
Tick ==
    /\ pc = "Paginating"
    /\ now < Now0 + MaxTicks
    /\ now' = now + 1
    /\ UNCHANGED <<pc, req, environments, query, start, end, defaultEnd, params,
                   referrer, full, orderby, serializer, offset, pages, calls,
                   response, prev>>

Next ==
    \/ ResolveQuery
    \/ ResolveWindow
    \/ DetectDirectHit
    \/ PrepareFilter
    \/ FetchPage
    \/ Materialize
    \/ Repeat
    \/ Tick

Spec == Init /\ [][Next]_vars

\* one request served to its end: the worker runs the steps of get() one
\* after the other, and every collaborator call returns or raises
ServeQuery == ResolveQueryFrom(EnvParams, RawQueries, FewRawDates)

ServeWindow == ResolveWindowFrom(FewRawDates)

ServeFilter == PrepareFilterFrom(AllFlagValues)

RequestNext ==
    \/ ServeQuery
    \/ ServeWindow
    \/ DetectDirectHit
    \/ ServeFilter
    \/ FetchPage
    \/ Materialize

RequestSpec == Init /\ [][RequestNext]_vars /\ WF_vars(RequestNext)

\* ------------------------------------------------------------------ claims
Calls(o) == {i \in 1..Len(calls) : calls[i].op = o}

NoCallOf(ops) == \A i \in 1..Len(calls) : calls[i].op \notin ops

Failed(o, result) == {i \in Calls(o) : calls[i].result = result}

\* C1: when query resolution fails with InvalidQuery the request has ended
\* with 400 {detail: the parser's message}, and it made no date parsing,
\* direct-hit lookup, page fetch or hydration call.
C1_InvalidQueryIs400 ==
    \A i \in Failed("parse_query", "InvalidQuery") :
        /\ pc = "Done"
        /\ response.status = 400
        /\ response.kind = "detail"
        /\ response.detail = calls[i].msg
        /\ response.items = <<>>
        /\ NoCallOf({"get_date_range_from_params", "get_direct_hit_response",
                     "direct_lookup", "get_query_builder_for_group", "run_query",
                     "bind_nodes", "serialize", "node_fetch"})

C1_Witness ==
    /\ pc = "Done"
    /\ Failed("parse_query", "InvalidQuery") # {}
    /\ response.detail = "parse error: unbalanced ("

\* C2: when query resolution ends in NoResults or ResourceDoesNotExist the
\* request has ended with 200 and the empty list, and it made no storage
\* call (direct lookup, run query, hydration).
C2_NoResultsIsEmpty200 ==
    \A i \in Failed("parse_query", "NoResults")
             \cup Failed("get_environments", "ResourceDoesNotExist") :
        /\ pc = "Done"
        /\ response.status = 200
        /\ response.kind = "list"
        /\ response.items = <<>>
        /\ NoCallOf({"get_direct_hit_response", "direct_lookup",
                     "get_query_builder_for_group", "run_query", "bind_nodes",
                     "node_fetch"})

C2_Witness ==
    /\ pc = "Done"
    /\ response.status = 200
    /\ Failed("parse_query", "NoResults") # {}

C2_WitnessMissingResource ==
    /\ pc = "Done"
    /\ response.status = 200
    /\ Failed("get_environments", "ResourceDoesNotExist") # {}

\* C3: when the date-range parser fails with InvalidParams the request has
\* ended with 400 and the parser's reason as detail, and no page query was
\* run.
C3_InvalidParamsIs400 ==
    \A i \in Failed("get_date_range_from_params", "InvalidParams") :
        /\ pc = "Done"
        /\ response.status = 400
        /\ response.kind = "detail"
        /\ response.detail = calls[i].msg
        /\ NoCallOf({"get_query_builder_for_group", "run_query", "bind_nodes"})

C3_Witness ==
    /\ pc = "Done"
    /\ Failed("get_date_range_from_params", "InvalidParams") # {}
    /\ req.start.kind = "date" /\ req.end.kind = "date" /\ req.start.t > req.end.t
    /\ response.detail = "start must be before end"

\* C4: when the direct-hit lookup finds its event, the request answers with
\* the direct-hit response after exactly one storage round trip, and data_fn,
\* run query, hydration and the paginator's serialization never run.
C4_DirectHitBypassesPagination ==
    (\E i \in Calls("direct_lookup") : calls[i].n = 1) =>
        /\ pc = "Done"
        /\ response.status = 200
        /\ response.via = "direct-hit"
        /\ Len(response.items) = 1
        /\ response.items[1].id = DirectHitId(query)
        /\ Cardinality(Calls("direct_lookup")) = 1
        /\ pages = <<>>
        /\ NoCallOf({"get_query_builder_for_group", "run_query", "bind_nodes",
                     "serialize", "node_fetch"})

C4_Witness ==
    /\ pc = "Done"
    /\ \E i \in Calls("direct_lookup") : calls[i].n = 1
    /\ response.via = "direct-hit"

\* the identifiers of a sequence of events
Ids(events) == [i \in 1..Len(events) |-> events[i].event_id]

\* one fetch of the request's whole filter, in its ordering mode
Unpaginated ==
    LET rows == RunQuery([query |-> QueryText(req.query), params |-> params,
                          group |-> GroupId, limit |-> MaxEvents, offset |-> 0,
                          orderby |-> orderby])
    IN [i \in 1..Len(rows) |-> rows[i].id]

\* the paginator stopped on a short page: the pages cover the filter
Covered == pages # <<>> /\ Len(pages[Len(pages)].events) < pages[Len(pages)].limit

\* C5: the pages fetched so far, concatenated in offset order, are a prefix
\* of the unpaginated fetch with the same ordering mode, and all of it once
\* the pages cover the filter; the response lists them in that order.
C5_PagesConcatenateToFullFetch ==
    pages # <<>> =>
        LET got == Ids(Concat(pages))
        IN /\ Len(got) <= Len(Unpaginated)
           /\ got = SubSeq(Unpaginated, 1, Len(got))
           /\ Covered => got = Unpaginated
           /\ (pc = "Done" /\ response.via = "paginate") =>
                  [i \in 1..Len(response.items) |-> response.items[i].id] = got

C5_Witness ==
    /\ pc = "Done"
    /\ response.via = "paginate"
    /\ Len(pages) = 2
    /\ Covered
    /\ Len(Unpaginated) = 3
    /\ orderby = "sample"

\* the window the request's filter has: the caller's start and end, the
\* 90-day default for the one that is missing
SpecWindow(s, e, entered) ==
    <<IF s = None THEN entered - Days90 ELSE s[1], IF e = None THEN entered ELSE e[1]>>

PageCalls(o, k) == {i \in Calls(o) : calls[i].page = k}

\* C7: every page data_fn returned cost exactly one run-query call, and
\* exactly one bind_nodes call over all its handles when full payloads were
\* asked for, none otherwise, whatever the number of rows in the page.
C7_OneQueryOneHydrationPerPage ==
    /\ \A k \in 1..Len(pages) :
          /\ Cardinality(PageCalls("run_query", k)) = 1
          /\ Cardinality(PageCalls("bind_nodes", k)) = (IF req.full \in {"1", "true"} THEN 1 ELSE 0)
          /\ \A i \in PageCalls("bind_nodes", k) : calls[i].n = Len(pages[k].events)
          /\ \A j \in 1..Len(pages[k].events) :
                (pages[k].events[j].node # None) <=> (req.full \in {"1", "true"})
    /\ \A i \in Calls("run_query") \cup Calls("bind_nodes") :
          calls[i].page \in 1..(Len(pages) + 1)
    /\ Cardinality(PageCalls("run_query", Len(pages) + 1)) <= 1
    /\ PageCalls("bind_nodes", Len(pages) + 1) = {}

C7_Witness ==
    /\ req.full = "true"
    /\ Len(pages) = 2
    /\ Len(pages[1].events) = 2
    /\ Len(pages[2].events) = 0
    /\ Cardinality(Calls("bind_nodes")) = 2

C7_WitnessNotFull ==
    /\ req.full = "True"
    /\ Len(pages) = 2
    /\ Len(pages[1].events) = 2
    /\ Calls("bind_nodes") = {}

WindowCalls ==
    Calls("get_direct_hit_response") \cup Calls("direct_lookup")
        \cup Calls("get_query_builder_for_group") \cup Calls("run_query")

\* C8: with start and end both omitted, the direct-hit lookup and every page
\* query use the window [default_end - 90 days, default_end), default_end
\* being the clock read once on entering _get_events_snuba; with both
\* supplied they use the caller's values unchanged.
C8_WindowDefaulting ==
    \A i \in WindowCalls :
        /\ (req.start.kind = "absent" /\ req.end.kind = "absent") =>
               /\ calls[i].params.start = defaultEnd - Days90
               /\ calls[i].params.end = defaultEnd
        /\ (req.start.kind = "date" /\ req.end.kind = "date") =>
               /\ calls[i].params.start = req.start.t
               /\ calls[i].params.end = req.end.t

C8_Witness ==
    /\ req.start.kind = "absent"
    /\ req.end.kind = "absent"
    /\ now > defaultEnd
    /\ Len(pages) = 2
    /\ \E i \in Calls("run_query") :
          calls[i].page = 2 /\ calls[i].params.start = Now0 - Days90 /\ calls[i].params.end = Now0

C8_WitnessSupplied ==
    /\ req.start.kind = "date"
    /\ req.end.kind = "date"
    /\ \E i \in Calls("run_query") : calls[i].params.start = 5 /\ calls[i].params.end = 70

\* C9: a storage-engine error raised by a page's run-query call ends the
\* request at once with a 400-class client error, and the call is not
\* issued again.
C9_StorageErrorIs400 ==
    \A i \in Calls("run_query") :
        calls[i].result \in StorageErrors =>
            /\ pc = "Done"
            /\ response.status >= 400
            /\ response.status < 500
            /\ \A j \in Calls("run_query") : j <= i

\* the step of the request a collaborator call belongs to, in the order the
\* code takes the steps
StepOf(op) ==
    CASE op \in {"get_environments", "parse_query"} -> 1
      [] op = "get_date_range_from_params" -> 2
      [] op \in {"get_direct_hit_response", "direct_lookup"} -> 3
      [] op \in {"get_query_builder_for_group", "run_query", "bind_nodes"} -> 4
      [] OTHER -> 5

\* the same, in the order ResolvingQuery, DetectingDirectHit, ResolvingWindow,
\* Paginating, Materializing
ClaimedStepOf(op) ==
    CASE op \in {"get_environments", "parse_query"} -> 1
      [] op \in {"get_direct_hit_response", "direct_lookup"} -> 2
      [] op = "get_date_range_from_params" -> 3
      [] op \in {"get_query_builder_for_group", "run_query", "bind_nodes"} -> 4
      [] OTHER -> 5

\* C10 as stated: the calls of a request come in the order query resolution,
\* direct-hit detection, window resolution, page fetches, materialization.
C10_OrderAsClaimed ==
    \A i \in 1..Len(calls), j \in 1..Len(calls) :
        i < j => ClaimedStepOf(calls[i].op) <= ClaimedStepOf(calls[j].op)

\* C10 (amended): the calls of a request come in the order query resolution,
\* window resolution, direct-hit detection, page fetches, materialization; no
\* step runs before the one ahead of it has run, and the request answers
\* only at the end.
C10_OrderOfSteps ==
    /\ \A i \in 1..Len(calls), j \in 1..Len(calls) :
          i < j => StepOf(calls[i].op) <= StepOf(calls[j].op)
    /\ \A j \in 1..Len(calls) :
          StepOf(calls[j].op) > 1 =>
              \E i \in 1..(j - 1) : StepOf(calls[i].op) = StepOf(calls[j].op) - 1
    /\ \A j \in Calls("get_direct_hit_response") \cup Calls("run_query") :
          \E i \in 1..(j - 1) :
              calls[i].op = "get_date_range_from_params" /\ calls[i].result = "ok"
    /\ response # NoResponse => pc = "Done"

C10_Witness ==
    /\ pc = "Done"
    /\ response.via = "paginate"
    /\ Calls("get_direct_hit_response") # {}
    /\ Calls("bind_nodes") # {}
    /\ Calls("serialize") # {}
    /\ Len(response.items) > 0

\* C11 as stated: an invalid-search-query condition raised while a page's
\* query is built leaves data_fn as GroupEventsError, which get() maps to the
\* 400 response.
C11_ViaGroupEventsError ==
    \A i \in Failed("get_query_builder_for_group", "InvalidSearchQuery") :
        /\ pc = "Done"
        /\ response.status = 400
        /\ response.detail = calls[i].msg
        /\ response.via = "GroupEventsError"

\* C11 (amended): an invalid-search-query condition raised while a page's
\* query is built makes data_fn raise ParseError itself; the request ends
\* with 400 {detail: the condition's message}, and no run-query and no
\* hydration call is made for that page.
C11_InvalidSearchQueryIs400 ==
    \A i \in Failed("get_query_builder_for_group", "InvalidSearchQuery") :
        /\ pc = "Done"
        /\ response.status = 400
        /\ response.kind = "detail"
        /\ response.detail = calls[i].msg
        /\ response.via = "ParseError"
        /\ PageCalls("run_query", calls[i].page) = {}
        /\ PageCalls("bind_nodes", calls[i].page) = {}
        /\ \A j \in 1..Len(calls) : j > i => calls[j].op \notin {"run_query", "bind_nodes"}

C11_Witness ==
    /\ pc = "Done"
    /\ Failed("get_query_builder_for_group", "InvalidSearchQuery") # {}
    /\ req.query = "dur:>1"
    /\ req.full = "1"
    /\ response.detail = "invalid search query"

\* the text of a resolved predicate, empty for the empty predicate
PredicateText(q) == IF q = None THEN "" ELSE q[1]

PageQueryCalls == Calls("get_query_builder_for_group") \cup Calls("run_query")

\* C12 as stated: every page query is built from the resolved predicate, the
\* value handed to the direct-hit detector.
C12_PageQueryFromResolvedPredicate ==
    \A i \in PageQueryCalls, j \in Calls("get_direct_hit_response") :
        calls[i].text = PredicateText(calls[j].query)

\* C12 (amended): every page query is built from the request's raw query
\* string (the empty string when the parameter is absent), the same on every
\* page; the resolved predicate goes to the direct-hit detector only.
C12_PageQueryFromRawQuery ==
    /\ \A i \in PageQueryCalls :
          /\ calls[i].text = (IF req.query = Absent THEN "" ELSE req.query)
          /\ calls[i].query = None
    /\ \A j \in Calls("get_direct_hit_response") :
          /\ calls[j].query = query
          /\ calls[j].text = ""
          /\ (req.query \in {Absent, ""}) => calls[j].query = None
          /\ (req.query \notin {Absent, ""}) => calls[j].query = ParseQuery(req.query).query

C12_Witness ==
    /\ req.query = "tag:x abc"
    /\ \E j \in Calls("get_direct_hit_response") : calls[j].query = Some("abc")
    /\ \E i \in Calls("run_query") : calls[i].page = 2 /\ calls[i].text = "tag:x abc"

\* the filter parameters of a page call: everything but offset and limit
FilterOf(c) ==
    [project_id |-> c.params.project_id, organization_id |-> c.params.organization_id,
     start |-> c.params.start, end |-> c.params.end,
     environment |-> c.params.environment, orderby |-> c.orderby, text |-> c.text]

\* C13: within a request every page call carries the same filter parameters
\* (project, organization, start, end, environments, orderby, query) and
\* every run-query call the same referrer; they are the values the request
\* holds, which no page fetch or hydration changed; the calls of different
\* pages differ in their offset.
C13_SameFilterOnEveryPage ==
    /\ \A i \in PageQueryCalls, j \in PageQueryCalls :
          /\ FilterOf(calls[i]) = FilterOf(calls[j])
          /\ calls[i].limit = calls[j].limit
          /\ (calls[i].page # calls[j].page) => calls[i].offset # calls[j].offset
    /\ \A i \in PageQueryCalls :
          /\ calls[i].params = params
          /\ calls[i].orderby = orderby
          /\ calls[i].limit = req.per_page
    /\ \A i \in Calls("run_query") : calls[i].referrer = referrer

C13_Witness ==
    /\ pc = "Done"
    /\ Cardinality(Calls("run_query")) = 3
    /\ Cardinality(Calls("bind_nodes")) = 3
    /\ params.environment = Some(<<"prod", "dev">>)
    /\ orderby = "sample"
    /\ now > defaultEnd

C15_EnvironmentRestriction ==
    /\ \A i \in PageQueryCalls :
          /\ (calls[i].params.environment # None) <=> (Len(environments) > 0)
          /\ Len(environments) > 0 => calls[i].params.environment = Some(environments)
          /\ Len(environments) = 0 => calls[i].params.environment = None
    /\ \A k \in 1..Len(pages) : \A j \in 1..Len(pages[k].events) :
          Len(environments) > 0 =>
              \E n \in 1..Len(environments) :
                  environments[n] = EnvOf(pages[k].events[j].event_id)

C15_Witness ==
    /\ environments = <<"prod", "dev">>
    /\ \E i \in Calls("run_query") :
          calls[i].params.environment = Some(<<"prod", "dev">>) /\ calls[i].n = 2

C15_WitnessNoEnvironment ==
    /\ environments = <<>>
    /\ \E i \in Calls("run_query") : calls[i].params.environment = None /\ calls[i].n = 2
    /\ \E k \in 1..Len(pages) : \E j \in 1..Len(pages[k].events) :
          EnvOf(pages[k].events[j].event_id) = "staging"

\* the referrer the issue's category stands for
CategoryTag ==
    CASE req.category = "ERROR" -> <<"api", "group-events", "error">>
      [] req.category = "PERFORMANCE" -> <<"api", "group-events", "performance">>
      [] OTHER -> <<>>

\* C16: every run-query call of a request is tagged
\* api.group-events.<lower-cased category name>, the direct-hit lookup with
\* the same followed by .direct-hit, and the same request served again (same
\* issue, same category) uses the same referrer.
C16_ReferrerFromCategory ==
    /\ \A i \in Calls("run_query") : calls[i].referrer = CategoryTag
    /\ \A i \in Calls("get_direct_hit_response") \cup Calls("direct_lookup") :
          calls[i].referrer = CategoryTag \o <<"direct-hit">>
    /\ (prev.repeated /\ referrer # <<>>) => referrer = prev.referrer

C16_Witness ==
    /\ pc = "Done"
    /\ prev.repeated
    /\ req.category = "PERFORMANCE"
    /\ prev.referrer = <<"api", "group-events", "performance">>
    /\ \E i \in Calls("get_direct_hit_response") :
          calls[i].referrer = <<"api", "group-events", "performance", "direct-hit">>
    /\ \E i \in Calls("run_query") :
          calls[i].page = 2 /\ calls[i].referrer = <<"api", "group-events", "performance">>

FullAsked == req.full \in {"1", "true"}

\* C17: the paginated response uses the full representation exactly when the
\* full flag is set; every event handed to the serializer was then hydrated
\* by data_fn, so serialization makes no node fetch; with the flag unset the
\* minimal representation is made from handles without payload.
C17_SerializerMatchesHydration ==
    /\ serializer # "" =>
          (serializer = "EventSerializer") <=> FullAsked
    /\ serializer # "" =>
          (serializer = "SimpleEventSerializer") <=> ~FullAsked
    /\ \A k \in 1..Len(pages) : \A j \in 1..Len(pages[k].events) :
          (pages[k].events[j].node # None) <=> FullAsked
    /\ Calls("node_fetch") = {}
    /\ (pc = "Done" /\ response.via = "paginate") =>
          /\ Cardinality(Calls("serialize")) = 1
          /\ \A i \in 1..Len(response.items) :
                /\ (response.items[i].payload # None) <=> FullAsked
                /\ ~response.items[i].fetched

C17_Witness ==
    /\ pc = "Done"
    /\ response.via = "paginate"
    /\ req.full = "1"
    /\ Len(response.items) = 3
    /\ response.items[3].payload # None
    /\ Cardinality(Calls("bind_nodes")) = 2

C17_WitnessMinimal ==
    /\ pc = "Done"
    /\ response.via = "paginate"
    /\ req.full = Absent
    /\ Len(response.items) = 3
    /\ response.items[3].payload = None
    /\ Concat(pages)[3].node = None

FlagsRead == req.full # Unread /\ req.sample # Unread

\* C18: orderby is "sample" exactly when the sample parameter is 1 or true,
\* and None otherwise; full payloads are on exactly when the full parameter
\* is 1 or true; each depends on its own parameter only, and any other value
\* (absent, 0, True, yes) leaves the default; the page queries and the
\* hydration calls follow the two settings.
C18_ExactFlagValues ==
    FlagsRead =>
        /\ (orderby = "sample") <=> (req.sample \in {"1", "true"})
        /\ (orderby = NoOrder) <=> (req.sample \in {Absent, "0", "True", "yes"})
        /\ full <=> (req.full \in {"1", "true"})
        /\ ~full <=> (req.full \in {Absent, "0", "True", "yes"})
        /\ (serializer = "EventSerializer") <=> (req.full \in {"1", "true"})
        /\ \A i \in PageQueryCalls :
              calls[i].orderby = (IF req.sample \in {"1", "true"} THEN "sample" ELSE NoOrder)
        /\ \A i \in Calls("run_query") :
              calls[i].result = "ok" =>
                  (PageCalls("bind_nodes", calls[i].page) # {}) <=> (req.full \in {"1", "true"})

C18_Witness ==
    /\ pc = "Done"
    /\ response.via = "paginate"
    /\ req.sample = "yes"
    /\ req.full = "1"
    /\ orderby = NoOrder
    /\ full
    /\ Cardinality(Calls("bind_nodes")) = 2

C18_WitnessSampleOnly ==
    /\ pc = "Done"
    /\ response.via = "paginate"
    /\ req.sample = "true"
    /\ req.full = "0"
    /\ orderby = "sample"
    /\ ~full
    /\ Calls("bind_nodes") = {}
    /\ Cardinality(Calls("run_query")) = 2

\* the page-fetch sequence of the paginator: offsets 0, limit, 2*limit, ...,
\* every page but the last one full, no page after a short one or after the
\* page cap; and the request has answered exactly when it is over, with one
\* of the terminal outcomes
PageSequenceShape ==
    /\ Len(pages) <= MaxPages
    /\ \A k \in 1..Len(pages) :
          /\ pages[k].offset = (k - 1) * req.per_page
          /\ pages[k].limit = req.per_page
          /\ k < Len(pages) => Len(pages[k].events) = pages[k].limit
          /\ \A i \in PageCalls("get_query_builder_for_group", k) \cup PageCalls("run_query", k) :
                calls[i].offset = pages[k].offset /\ calls[i].limit = pages[k].limit
    /\ \A i \in PageQueryCalls : \A j \in PageQueryCalls :
          (i < j /\ calls[i].page < calls[j].page) => calls[i].offset < calls[j].offset
    /\ (pc = "Paginating" /\ pages # <<>>) =>
          /\ Len(pages[Len(pages)].events) = req.per_page
          /\ Len(pages) < MaxPages
    /\ (pc = "Materializing" \/ (pc = "Done" /\ response.via = "paginate")) =>
          /\ pages # <<>>
          /\ Len(pages[Len(pages)].events) < req.per_page \/ Len(pages) = MaxPages
    /\ (pc = "Done") <=> (response # NoResponse)
    /\ pc = "Done" =>
          \/ response.status = 200 /\ response.kind = "list"
          \/ response.status = 400 /\ response.kind = "detail"
          \/ response.status = 500 /\ response.kind = "fault"

\* C19: the worker running the steps of a request without stopping, the
\* request ends, in one terminal outcome (200, or 400 / server fault); the
\* paginator's page calls use increasing offsets and stop after a short page
\* or at the page cap; once the request has answered it takes no further step
\* and its response does not change.
C19_TerminatesOnce ==
    /\ <>(pc = "Done")
    /\ []PageSequenceShape
    /\ [][pc # "Done" /\ (response # NoResponse => response' = response)]_vars

C19_Witness ==
    /\ pc = "Done"
    /\ response.status = 200
    /\ response.via = "paginate"
    /\ Len(pages) = MaxPages
    /\ Len(pages[MaxPages].events) = req.per_page
    /\ req.per_page = 1

C19_WitnessShortPage ==
    /\ pc = "Done"
    /\ response.status = 200
    /\ response.via = "paginate"
    /\ Len(pages) = 2
    /\ req.per_page = 2
    /\ Len(pages[2].events) = 1

C19_WitnessFault ==
    /\ pc = "Done"
    /\ response.status = 500
    /\ Len(pages) = 1

\* C20: when _get_search_query finds the raw query string empty or absent,
\* parse_query is not called and the resolved predicate is None; the request
\* is not answered by query resolution (no InvalidQuery 400, no empty list):
\* it goes on to window resolution and, the window resolved, to direct-hit
\* detection, which is handed None.
C20_EmptyQueryNotParsed ==
    (req.query \in {Absent, ""} /\ Calls("get_environments") # {}) =>
        /\ Calls("parse_query") = {}
        /\ query = None
        /\ response.via # "Response"
        /\ pc # "ResolvingQuery"
        /\ pc = "ResolvingWindow" \/ Calls("get_date_range_from_params") # {}
        /\ (\E i \in Calls("get_date_range_from_params") : calls[i].result = "ok") =>
              \/ pc = "DetectingDirectHit"
              \/ \E j \in Calls("get_direct_hit_response") : calls[j].query = None
        /\ Calls("direct_lookup") = {}

C20_Witness ==
    /\ req.query = ""
    /\ pc = "Done"
    /\ response.via = "paginate"
    /\ Calls("parse_query") = {}
    /\ \E j \in Calls("get_direct_hit_response") : calls[j].query = None

C20_WitnessAbsent ==
    /\ req.query = Absent
    /\ pc = "Done"
    /\ response.via = "paginate"
    /\ Calls("parse_query") = {}
    /\ Len(response.items) = 3

\* the rows the storage engine returned to the run-query call c
RowsOf(c) ==
    RunQuery([query |-> c.text, params |-> c.params, group |-> GroupId,
              limit |-> c.limit, offset |-> c.offset, orderby |-> c.orderby])

\* C21: every page data_fn returned holds one handle per row of that call's
\* run-query result, in row order, with the row's identifier, project id,
\* group id and timestamp, hydrated exactly when full payloads were asked
\* for; this stays so for every page while later pages are fetched and
\* hydrated.
C21_HandlesFromRowsOfTheCall ==
    \A k \in 1..Len(pages) : \A i \in PageCalls("run_query", k) :
        LET rows == RowsOf(calls[i])
            events == pages[k].events
        IN /\ Len(events) = Len(rows)
           /\ Len(events) = calls[i].n
           /\ \A j \in 1..Len(events) :
                 /\ events[j].event_id = rows[j].id
                 /\ events[j].project_id = rows[j].project_id
                 /\ events[j].group_id = rows[j].issue_id
                 /\ events[j].timestamp = rows[j].timestamp
                 /\ events[j].node =
                        (IF req.full \in {"1", "true"}
                         THEN Some(Payload(rows[j].id)) ELSE None)
                 /\ events[j].project_id = ProjectId
                 /\ events[j].group_id = GroupId

C21_Witness ==
    /\ pc = "Done"
    /\ response.via = "paginate"
    /\ req.full = "1"
    /\ Len(pages) = 2
    /\ Len(pages[1].events) = 2
    /\ Len(pages[2].events) = 1
    /\ Cardinality(Calls("bind_nodes")) = 2
    /\ pages[1].events[1].event_id # pages[2].events[1].event_id

DirectHitCalls == Calls("get_direct_hit_response") \cup Calls("direct_lookup")

\* C22: the direct-hit lookup comes before the environment restriction is
\* added: its parameters hold project, organization, start and end and no
\* environment key, so the event it names is found, and returned, whatever
\* environments the caller selected; every page query that follows carries
\* the restriction of the selected environments.
C22_DirectHitIgnoresEnvironment ==
    /\ \A i \in DirectHitCalls :
          /\ calls[i].params.environment = None
          /\ calls[i].params.project_id = <<ProjectId>>
          /\ calls[i].params.organization_id = OrganizationId
          /\ calls[i].params.start = params.start
          /\ calls[i].params.end = params.end
          /\ \A j \in PageQueryCalls :
                /\ i < j
                /\ Len(environments) > 0 => calls[j].params.environment = Some(environments)
    /\ \A i \in Calls("direct_lookup") :
          LET id == DirectHitId(calls[i].query)
              there == id \in EventIds /\ calls[i].params.start <= Ts(id)
                          /\ Ts(id) < calls[i].params.end
          IN /\ calls[i].n = (IF there THEN 1 ELSE 0)
             /\ there => (response.via = "direct-hit" /\ response.items[1].id = id)

C22_Witness ==
    /\ pc = "Done"
    /\ environments = <<"prod", "dev">>
    /\ response.via = "direct-hit"
    /\ response.items[1].id = 2
    /\ EnvOf(2) = "staging"
    /\ \E i \in Calls("direct_lookup") : calls[i].params.environment = None

C22_WitnessLaterPages ==
    /\ pc = "Done"
    /\ environments = <<"prod", "dev">>
    /\ response.via = "paginate"
    /\ \E i \in Calls("direct_lookup") : calls[i].n = 0 /\ calls[i].params.environment = None
    /\ \E j \in Calls("run_query") : calls[j].params.environment = Some(<<"prod", "dev">>)

\* the calls in which query resolution ended the request
QueryResolutionFailures ==
    Failed("parse_query", "InvalidQuery") \cup Failed("parse_query", "NoResults")
        \cup Failed("get_environments", "ResourceDoesNotExist")

\* the request's start or end is unparseable, or start is after end
WindowWouldFail ==
    \/ req.start.kind = "bad"
    \/ req.end.kind = "bad"
    \/ req.start.kind = "date" /\ req.end.kind = "date" /\ req.start.t > req.end.t

\* C23: a request whose query resolution ends in InvalidQuery answers 400
\* with the parser's message, one that ends in NoResults or
\* ResourceDoesNotExist answers 200 with the empty list, whatever its start
\* and end parameters are, unparseable and inverted ones included; the date
\* parser is not called for it.
C23_QueryOutcomeBeforeWindow ==
    \A i \in QueryResolutionFailures :
        /\ pc = "Done"
        /\ Calls("get_date_range_from_params") = {}
        /\ response.via = "Response"
        /\ calls[i].result = "InvalidQuery" =>
              /\ response.status = 400
              /\ response.kind = "detail"
              /\ response.detail = calls[i].msg
        /\ calls[i].result \in {"NoResults", "ResourceDoesNotExist"} =>
              /\ response.status = 200
              /\ response.kind = "list"
              /\ response.items = <<>>

C23_Witness ==
    /\ pc = "Done"
    /\ Failed("parse_query", "InvalidQuery") # {}
    /\ req.start.kind = "bad"
    /\ WindowWouldFail
    /\ response.status = 400
    /\ response.detail = "parse error: unbalanced ("

C23_WitnessNoResultsInverted ==
    /\ pc = "Done"
    /\ Failed("parse_query", "NoResults") # {}
    /\ req.start.kind = "date" /\ req.end.kind = "date" /\ req.start.t > req.end.t
    /\ response.status = 200

C23_WitnessMissingResource ==
    /\ pc = "Done"
    /\ Failed("get_environments", "ResourceDoesNotExist") # {}
    /\ req.end.kind = "bad"
    /\ response.status = 200

====
